---------------------------- MODULE Spec2Model ----------------------------
(***************************************************************************)
(* Model of the architecture-documentation generator:                      *)
(*   front_matter.rs  extract_front_matter, parse_front_matter,            *)
(*                    extract_first_paragraph                              *)
(*   component.rs     parse_component                                      *)
(*   config.rs        Config accessors                                     *)
(*   generator.rs     generate_document, group_by_category,                *)
(*                    order_categories                                     *)
(*   main.rs          generate_architecture, find_markdown_files,          *)
(*                    get_base_dir_from_pattern                            *)
(*                                                                         *)
(* Text is a sequence of characters; a character is a one-character        *)
(* string.  The backtick, which cannot be written inside a TLA+ string, is *)
(* the value BT.                                                           *)
(***************************************************************************)
EXTENDS Integers, Sequences, FiniteSets, TLC

VARIABLES
    pc,          \* position of the run that is modelled
    components,  \* generate_document: the `components` slice
    config,      \* generate_document: the `config`
    doc,         \* generate_document: the returned String
    content,     \* parse_component: the text read from the file
    fm_str,      \* parse_component: result of extract_front_matter
    fm,          \* parse_component: result of parse_front_matter
    description, \* parse_component: the description that was chosen
    result,      \* parse_component: the returned Result<Component>
    paragraph,   \* extract_first_paragraph: the returned Option<String>
    args,        \* main: the pattern and the -c option of the command line
    disk,        \* main: the config files and the output file on disk
    found,       \* generate_architecture: result of find_markdown_files
    next_file,   \* generate_architecture: position of the `for file in files` loop
    loaded,      \* generate_architecture: result of Config::load
    exit         \* generate_architecture: the returned Result<()>

driverVars == <<args, disk, found, next_file, loaded, exit>>

vars == <<pc, components, config, doc, content, fm_str, fm, description, result,
          paragraph, driverVars>>

-----------------------------------------------------------------------------
(* Characters and strings *)

NL == "\n"
CR == "\r"
SP == " "
TAB == "\t"
BT == "BT"

\* Option<T>: None, or Some(v)
None == [some |-> FALSE]
Some(v) == [some |-> TRUE, val |-> v]

\* The characters of the model in ascending code-point order (u8 order of str::cmp).
Alphabet ==
    << TAB, NL, CR, SP, "#", "'", "*", "-", "/", ":", "?",
       "A", "B", "C", "D", "E", "F", "G", "H", "I", "J", "K", "L", "M",
       "N", "O", "P", "Q", "R", "S", "T", "U", "V", "W", "X", "Y", "Z",
       "[", BT,
       "a", "b", "c", "d", "e", "f", "g", "h", "i", "j", "k", "l", "m",
       "n", "o", "p", "q", "r", "s", "t", "u", "v", "w", "x", "y", "z" >>

Code(c) == CHOOSE i \in 1..Len(Alphabet) : Alphabet[i] = c

\* char::is_whitespace, on the characters of the model
IsWhitespace(c) == c \in {SP, TAB, NL, CR}

RECURSIVE Concat(_)
Concat(ss) == IF ss = <<>> THEN <<>> ELSE Head(ss) \o Concat(Tail(ss))

\* the order of <[u8] as Ord>::cmp: -1, 0, 1
RECURSIVE StrCmp(_, _)
StrCmp(a, b) ==
    IF a = <<>> THEN (IF b = <<>> THEN 0 ELSE -1)
    ELSE IF b = <<>> THEN 1
    ELSE IF Code(Head(a)) < Code(Head(b)) THEN -1
    ELSE IF Code(Head(a)) > Code(Head(b)) THEN 1
    ELSE StrCmp(Tail(a), Tail(b))

StartsWith(s, p) == Len(s) >= Len(p) /\ SubSeq(s, 1, Len(p)) = p

\* str::trim_end
RECURSIVE trim_end(_)
trim_end(s) ==
    IF s # <<>> /\ IsWhitespace(s[Len(s)]) THEN trim_end(SubSeq(s, 1, Len(s) - 1))
    ELSE s

\* str::trim_start
RECURSIVE trim_start(_)
trim_start(s) ==
    IF s # <<>> /\ IsWhitespace(Head(s)) THEN trim_start(Tail(s)) ELSE s

\* str::trim
trim(s) == trim_start(trim_end(s))

\* str::lines: split at "\n", drop the "\r" of a "\r\n" ending; the text
\* after the last "\n" is a line only when it is not empty.
RECURSIVE lines(_)
lines(s) ==
    IF s = <<>> THEN <<>>
    ELSE IF \A i \in DOMAIN s : s[i] # NL THEN <<s>>
    ELSE LET p == CHOOSE i \in DOMAIN s : s[i] = NL /\ \A j \in 1..(i - 1) : s[j] # NL
             l == SubSeq(s, 1, p - 1)
         IN  << (IF l # <<>> /\ l[Len(l)] = CR THEN SubSeq(l, 1, Len(l) - 1) ELSE l) >>
             \o lines(SubSeq(s, p + 1, Len(s)))

\* [&str]::join(sep)
RECURSIVE join(_, _)
join(ls, sep) ==
    IF ls = <<>> THEN <<>>
    ELSE IF Len(ls) = 1 THEN ls[1]
    ELSE ls[1] \o sep \o join(Tail(ls), sep)

Range(s) == { s[i] : i \in DOMAIN s }

\* Path::components: the non-empty names between "/"
RECURSIVE PathComponentsFrom(_, _, _)
PathComponentsFrom(p, i, cur) ==
    IF i > Len(p) THEN (IF cur = <<>> THEN <<>> ELSE <<cur>>)
    ELSE IF p[i] = "/"
         THEN (IF cur = <<>> THEN <<>> ELSE <<cur>>) \o PathComponentsFrom(p, i + 1, <<>>)
         ELSE PathComponentsFrom(p, i + 1, Append(cur, p[i]))

PathComponents(p) == PathComponentsFrom(p, 1, <<>>)

-----------------------------------------------------------------------------
(* front_matter.rs *)

\* Result<T>: Ok(v), or Err(context)
Ok(v) == [ok |-> TRUE, val |-> v]
Err(context) == [ok |-> FALSE, err |-> context]

\* the outcome of a slice that panics
Panic == [some |-> FALSE, panic |-> TRUE]

Dashes == <<"-", "-", "-">>

\* &content[from..to], byte offsets; a range outside the text panics
Slice(s, from, to) ==
    IF from <= to /\ to <= Len(s) THEN Some(SubSeq(s, from + 1, to)) ELSE Panic

\* the index of the first line after the opening one whose trim is "---";
\* 0 when there is none
ClosingIndex(ls) ==
    LET hits == { i \in 2..Len(ls) : trim(ls[i]) = Dashes }
    IN  IF hits = {} THEN 0 ELSE CHOOSE i \in hits : \A j \in hits : i <= j

\* extract_front_matter
extract_front_matter(text) ==
    LET ls == lines(text)
    IN  IF ls = <<>> \/ ~StartsWith(trim(ls[1]), Dashes) THEN None
        ELSE LET i == ClosingIndex(ls)
             IN  IF i = 0 THEN None
                 ELSE Slice(text, Len(ls[1]) + 1, Len(join(SubSeq(ls, 1, i), <<NL>>)) - 3)

KeyCategory == <<"c", "a", "t", "e", "g", "o", "r", "y">>
KeyDescription == <<"d", "e", "s", "c", "r", "i", "p", "t", "i", "o", "n">>

\* serde_yaml on one line of a block mapping, `key: value` or `key:`:
\* the key and the scalar (None for the null of an empty value, the text
\* between the quotes for a single-quoted scalar, else the plain scalar);
\* None when the line is no mapping entry
YamlEntry(l) ==
    LET colons == { i \in DOMAIN l : l[i] = ":" /\ (i = Len(l) \/ l[i + 1] = SP) }
    IN  IF colons = {} \/ IsWhitespace(l[1]) THEN None
        ELSE LET c == CHOOSE i \in colons : \A j \in colons : i <= j
                 v == trim(SubSeq(l, c + 1, Len(l)))
             IN  Some([ key |-> SubSeq(l, 1, c - 1),
                        value |-> IF v = <<>> THEN None
                                  ELSE IF Len(v) >= 2 /\ v[1] = "'" /\ v[Len(v)] = "'"
                                       THEN Some(SubSeq(v, 2, Len(v) - 1))
                                       ELSE Some(v) ])

\* parse_front_matter: serde_yaml::from_str::<FrontMatter>, for a block of
\* `key: value` lines.  Blank lines are skipped; a line that is no mapping
\* entry, a repeated key, and a missing or null `category` are errors; a
\* missing or null `description` is None; other keys are ignored.
parse_front_matter(yaml) ==
    LET IsContent(l) == trim(l) # <<>>
        ls == SelectSeq(lines(yaml), IsContent)
        entries == [i \in DOMAIN ls |-> YamlEntry(ls[i])]
        Values(k) == { i \in DOMAIN ls : entries[i].val.key = k }
        ValueOf(k) == entries[CHOOSE i \in Values(k) : TRUE].val.value
    IN  IF \E i \in DOMAIN ls : ~entries[i].some THEN Err("yaml")
        ELSE IF \E i, j \in DOMAIN ls : i # j /\ entries[i].val.key = entries[j].val.key
             THEN Err("yaml")
        ELSE IF Values(KeyCategory) = {} \/ ~ValueOf(KeyCategory).some THEN Err("yaml")
        ELSE Ok([ description |-> IF Values(KeyDescription) = {} THEN None
                                  ELSE ValueOf(KeyDescription),
                  category |-> ValueOf(KeyCategory).val ])

IsBlank(l) == trim(l) = <<>>
IsHeadingLine(l) == StartsWith(trim(l), <<"#">>)
IsDashes(l) == trim(l) = Dashes

\* where a loop over the lines from index i stops: the first k >= i with
\* stop[k]; Len(stop) + 1 when the lines run out
NextLine(stop, i) ==
    LET hits == { k \in i..Len(stop) : stop[k] }
    IN  IF hits = {} THEN Len(stop) + 1 ELSE CHOOSE k \in hits : \A j \in hits : k <= j

\* the lines joined as they are, the whitespace around them kept
JoinTrimmed_untrimmed(ls, from, to) ==
    join([k \in 1..(to - from) |-> ls[from + k - 1]], <<SP>>)

\* the lines ls[from..to-1], each trimmed, joined with one space
JoinTrimmed(ls, from, to) ==
    join([k \in 1..(to - from) |-> trim(ls[from + k - 1])], <<SP>>)

\* extract_first_paragraph
extract_first_paragraph(text) ==
    LET ls == lines(text)
        dashes == [k \in DOMAIN ls |-> IsDashes(ls[k])]
        blank == [k \in DOMAIN ls |-> IsBlank(ls[k])]
        heading == [k \in DOMAIN ls |-> IsHeadingLine(ls[k])]
        \* "Skip front matter if present": the first line that follows it
        body == IF ls # <<>> /\ dashes[1] THEN NextLine(dashes, 2) + 1 ELSE 1
        \* "Skip any blank lines and the first heading"
        first == NextLine([k \in DOMAIN ls |-> ~blank[k]], body)
    IN  IF first > Len(ls) THEN None
        ELSE IF ~heading[first]
             \* content before a heading: collected up to the next blank line
             THEN Some(JoinTrimmed(ls, first, NextLine(blank, first + 1)))
        ELSE \* "Now find the first paragraph after the heading"
             LET start == NextLine([k \in DOMAIN ls |-> ~blank[k] /\ ~heading[k]], first + 1)
             IN  IF start > Len(ls) THEN None
                 ELSE Some(JoinTrimmed(ls, start,
                          NextLine([k \in DOMAIN ls |-> blank[k] \/ heading[k]], start + 1)))

-----------------------------------------------------------------------------
(* component.rs *)

\* the first paragraph preferred to the front-matter description
description_or_else_paragraph_first(front_matter, text) ==
    IF extract_first_paragraph(text).some THEN extract_first_paragraph(text)
    ELSE front_matter.description

\* front_matter.description.or_else(|| extract_first_paragraph(&content))
description_or_else(front_matter, text) ==
    IF front_matter.description.some THEN front_matter.description
    ELSE extract_first_paragraph(text)

\* Path::strip_prefix: by components; the rest of the path, or None when
\* base is no prefix of it
strip_prefix(path, base) ==
    LET pcs == PathComponents(path)
        bcs == PathComponents(base)
    IN  IF Len(bcs) <= Len(pcs) /\ SubSeq(pcs, 1, Len(bcs)) = bcs
        THEN Some(join(SubSeq(pcs, Len(bcs) + 1, Len(pcs)), <<"/">>))
        ELSE None

\* path.strip_prefix(base_dir).map(|p| p.to_path_buf()).unwrap_or_else(|_| path.clone())
relative_path(path, base_dir) ==
    LET stripped == strip_prefix(path, base_dir)
    IN  IF stripped.some THEN stripped.val ELSE path

-----------------------------------------------------------------------------
(* main.rs: the base directory the driver hands to parse_component *)

\* comp_str.contains('*') || comp_str.contains('?') || comp_str.contains('[')
HasWildcard(comp) == \E i \in DOMAIN comp : comp[i] \in {"*", "?", "["}

\* get_base_dir_from_pattern: the components of the pattern before the first
\* one that holds a wildcard; all of them when none does
get_base_dir_from_pattern(pattern) ==
    LET comps == PathComponents(pattern)
        wild == { i \in DOMAIN comps : HasWildcard(comps[i]) }
        n == IF wild = {} THEN Len(comps)
             ELSE (CHOOSE i \in wild : \A j \in wild : i <= j) - 1
    IN  join(SubSeq(comps, 1, n), <<"/">>)

-----------------------------------------------------------------------------
(* config.rs *)

\* DEFAULT_TITLE = "Architecture Documentation"
DEFAULT_TITLE ==
    << "A", "r", "c", "h", "i", "t", "e", "c", "t", "u", "r", "e", SP,
       "D", "o", "c", "u", "m", "e", "n", "t", "a", "t", "i", "o", "n" >>

\* Config::default(): no title, no description, no categories
DefaultConfig == [title |-> None, description |-> None, categories |-> <<>>]

\* Config::title: self.title.as_deref().unwrap_or(DEFAULT_TITLE)
title(cfg) == IF cfg.title.some THEN cfg.title.val ELSE DEFAULT_TITLE

\* a lookup that lets the last matching entry win
RECURSIVE FindCategory_last(_, _)
FindCategory_last(cats, name) ==
    IF cats = <<>> THEN None
    ELSE IF cats[Len(cats)].category = name THEN Some(cats[Len(cats)])
    ELSE FindCategory_last(SubSeq(cats, 1, Len(cats) - 1), name)

\* Config::get_category: self.categories.iter().find(|c| c.category == name)
RECURSIVE FindCategory(_, _)
FindCategory(cats, name) ==
    IF cats = <<>> THEN None
    ELSE IF Head(cats).category = name THEN Some(Head(cats))
    ELSE FindCategory(Tail(cats), name)

get_category(cfg, name) == FindCategory(cfg.categories, name)

\* Config::display_title_for:
\*   get_category(name).and_then(|c| c.title.as_deref()).unwrap_or(name)
display_title_for(cfg, name) ==
    LET c == get_category(cfg, name)
    IN  IF c.some /\ c.val.title.some THEN c.val.title.val ELSE name

\* Config::category_order: the category strings in the order of `categories`
category_order(cfg) == [i \in DOMAIN cfg.categories |-> cfg.categories[i].category]

-----------------------------------------------------------------------------
(* generator.rs *)

\* <Path as Ord>::cmp: the component sequences compared lexicographically,
\* each component by its bytes
RECURSIVE ComponentsCmp(_, _)
ComponentsCmp(a, b) ==
    IF a = <<>> THEN (IF b = <<>> THEN 0 ELSE -1)
    ELSE IF b = <<>> THEN 1
    ELSE LET c == StrCmp(Head(a), Head(b))
         IN  IF c # 0 THEN c ELSE ComponentsCmp(Tail(a), Tail(b))

PathCmp(p, q) == ComponentsCmp(PathComponents(p), PathComponents(q))

\* an insertion that puts x first, whatever its path
InsertByPath_front(sorted, x) == <<x>> \o sorted

\* one insertion of the stable sort: x goes after every element whose path
\* is not greater
RECURSIVE InsertByPath(_, _)
InsertByPath(sorted, x) ==
    IF sorted = <<>> THEN <<x>>
    ELSE IF PathCmp(Head(sorted).path, x.path) <= 0
         THEN <<Head(sorted)>> \o InsertByPath(Tail(sorted), x)
         ELSE <<x>> \o sorted

\* a group left in input order
sort_by_key_path_skipped(comps) == comps

\* comps.sort_by_key(|c| &c.path): stable
RECURSIVE sort_by_key_path(_)
sort_by_key_path(comps) ==
    IF comps = <<>> THEN <<>>
    ELSE InsertByPath(sort_by_key_path(SubSeq(comps, 1, Len(comps) - 1)),
                      comps[Len(comps)])

\* group_by_category: into_group_map_by keeps the input order inside each
\* group; every group is then sorted by path
group_by_category(comps) ==
    [ k \in { comps[i].category : i \in DOMAIN comps } |->
        LET InGroup(c) == c.category = k
        IN  sort_by_key_path(SelectSeq(comps, InGroup)) ]

\* the orders in which HashMap::keys may iterate
KeyOrders(grouped) ==
    { o \in [1..Cardinality(DOMAIN grouped) -> DOMAIN grouped] :
        \A i, j \in DOMAIN o : i # j => o[i] # o[j] }

RECURSIVE InsertStr(_, _)
InsertStr(sorted, x) ==
    IF sorted = <<>> THEN <<x>>
    ELSE IF StrCmp(Head(sorted), x) <= 0
         THEN <<Head(sorted)>> \o InsertStr(Tail(sorted), x)
         ELSE <<x>> \o sorted

\* remaining.sort_unstable() on &str
RECURSIVE sort_unstable(_)
sort_unstable(names) ==
    IF names = <<>> THEN <<>>
    ELSE InsertStr(sort_unstable(Tail(names)), Head(names))

\* the unlisted categories left in the map's iteration order
order_categories_unsorted(grouped, cfg, key_order) ==
    LET config_order == category_order(cfg)
        HasComponents(name) == name \in DOMAIN grouped
        Unlisted(name) == name \notin Range(config_order)
    IN  SelectSeq(config_order, HasComponents) \o SelectSeq(key_order, Unlisted)

\* order_categories; key_order is the iteration order of grouped.keys()
order_categories(grouped, cfg, key_order) ==
    LET config_order == category_order(cfg)
        HasComponents(name) == name \in DOMAIN grouped
        Unlisted(name) == name \notin Range(config_order)
    IN  SelectSeq(config_order, HasComponents)
        \o sort_unstable(SelectSeq(key_order, Unlisted))

\* writeln!(doc, "- `{}`: {}", comp.path.display(), comp.description)
EntryLine(comp) == <<"-", SP, BT>> \o comp.path \o <<BT, ":", SP>> \o comp.description \o <<NL>>

\* the body of the loop over ordered_categories, for one category name
CategorySection(grouped, cfg, category_name) ==
    IF category_name \in DOMAIN grouped
    THEN LET c == get_category(cfg, category_name)
         IN  <<NL, "#", "#", SP>> \o display_title_for(cfg, category_name) \o <<NL>>
             \o (IF c.some /\ c.val.description.some
                 THEN <<NL>> \o trim_end(c.val.description.val) \o <<NL>>
                 ELSE <<>>)
             \o <<NL>>
             \o Concat([i \in DOMAIN grouped[category_name] |->
                          EntryLine(grouped[category_name][i])])
    ELSE <<>>

\* a header that keeps the description's trailing whitespace
Header_untrimmed(cfg) ==
    <<"#", SP>> \o title(cfg) \o <<NL>>
    \o (IF cfg.description.some THEN <<NL>> \o cfg.description.val \o <<NL>> ELSE <<>>)

\* the header: "# {title}\n", then "\n{description.trim_end()}\n" when present
Header(cfg) ==
    <<"#", SP>> \o title(cfg) \o <<NL>>
    \o (IF cfg.description.some
        THEN <<NL>> \o trim_end(cfg.description.val) \o <<NL>>
        ELSE <<>>)

\* a generator that walks the whole config order and writes a section for
\* every name, with or without components
generate_document_unfiltered(comps, cfg, key_order) ==
    IF comps = <<>> THEN Header(cfg)
    ELSE LET grouped == group_by_category(comps)
             Unlisted(name) == name \notin Range(category_order(cfg))
             names == category_order(cfg) \o sort_unstable(SelectSeq(key_order, Unlisted))
             Section(name) ==
                 LET c == get_category(cfg, name)
                 IN  <<NL, "#", "#", SP>> \o display_title_for(cfg, name) \o <<NL>>
                     \o (IF c.some /\ c.val.description.some
                         THEN <<NL>> \o trim_end(c.val.description.val) \o <<NL>>
                         ELSE <<>>)
                     \o <<NL>>
                     \o (IF name \in DOMAIN grouped
                         THEN Concat([i \in DOMAIN grouped[name] |-> EntryLine(grouped[name][i])])
                         ELSE <<>>)
         IN  Header(cfg) \o Concat([i \in DOMAIN names |-> Section(names[i])])

\* generate_document; key_order is the iteration order of the HashMap
generate_document(comps, cfg, key_order) ==
    IF comps = <<>> THEN Header(cfg)
    ELSE LET grouped == group_by_category(comps)
             ordered_categories == order_categories(grouped, cfg, key_order)
         IN  Header(cfg)
             \o Concat([i \in DOMAIN ordered_categories |->
                          CategorySection(grouped, cfg, ordered_categories[i])])

-----------------------------------------------------------------------------
(* Inputs of generate_document *)

\* the longest `components` slice
MaxComponents == 3
\* the longest `categories` sequence of a config
MaxCategories == 2

\* Components as parse_component returns them: relative paths, with "a" a
\* proper prefix of "a-b"; the categories "A", "B" and "a".
ComponentPool ==
    { [path |-> <<"a", "/", "R">>,           description |-> <<"p">>, category |-> <<"A">>],
      [path |-> <<"a", "-", "b", "/", "R">>, description |-> <<"q">>, category |-> <<"A">>],
      [path |-> <<"c", "/", "R">>,           description |-> <<"r">>, category |-> <<"a">>],
      [path |-> <<"d", "/", "R">>,           description |-> <<"s">>, category |-> <<"B">>] }

\* [[categories]] tables: "A" twice, with and without title and description
\* (the description ends in whitespace), and "B".  No table names "a".
CategoryPool ==
    { [category |-> <<"A">>, title |-> Some(<<"X">>), description |-> Some(<<"e", SP, NL>>)],
      [category |-> <<"A">>, title |-> None,          description |-> None],
      [category |-> <<"B">>, title |-> Some(<<"Y">>), description |-> Some(<<"f">>)] }

\* title and description of the document
HeaderPool ==
    { [title |-> None,          description |-> None],
      [title |-> Some(<<"T">>), description |-> None],
      [title |-> None,          description |-> Some(<<"d", NL, SP>>)] }

Configs ==
    { [title |-> h.title, description |-> h.description, categories |-> cs] :
        h \in HeaderPool,
        cs \in UNION { [1..n -> CategoryPool] : n \in 0..MaxCategories } }

-----------------------------------------------------------------------------
(* generate_document called on a component list and a config *)

InitGen ==
    /\ pc = "collect"
    /\ components = <<>>
    /\ config \in Configs
    /\ doc = <<>>
    /\ content = <<>>
    /\ fm_str = None
    /\ fm = None
    /\ description = None
    /\ result = None
    /\ paragraph = None
    /\ args = None
    /\ disk = None
    /\ found = None
    /\ next_file = 1
    /\ loaded = None
    /\ exit = None

\* the caller puts one more component into the list
PushComponent ==
    /\ pc = "collect"
    /\ Len(components) < MaxComponents
    /\ \E c \in ComponentPool : components' = Append(components, c)
    /\ UNCHANGED <<pc, config, doc, content, fm_str, fm, description, result>>
    /\ UNCHANGED <<paragraph, driverVars>>

\* generate_document(&components, &config)
GenerateDocument ==
    /\ pc = "collect"
    /\ \E key_order \in KeyOrders(group_by_category(components)) :
          doc' = generate_document(components, config, key_order)
    /\ pc' = "generated"
    /\ UNCHANGED <<components, config, content, fm_str, fm, description, result>>
    /\ UNCHANGED <<paragraph, driverVars>>

NextGen == PushComponent \/ GenerateDocument

SpecGen == InitGen /\ [][NextGen]_vars

-----------------------------------------------------------------------------
(* Reading a generated document back *)

Generated == pc = "generated"

\* the categories that have at least one component
UsedCategories == { components[i].category : i \in DOMAIN components }

HeadingMark == <<"#", "#", SP>>
EntryMark == <<"-", SP, BT>>

IsHeading(l) == StartsWith(l, HeadingMark)
IsEntry(l) == StartsWith(l, EntryMark)

DocLines == lines(doc)

\* the texts of the `## ` headings of the document, in document order
HeadingTitles ==
    LET hs == SelectSeq(DocLines, IsHeading)
    IN  [i \in DOMAIN hs |-> SubSeq(hs[i], Len(HeadingMark) + 1, Len(hs[i]))]

\* the line that lists component c
EntryText(c) == EntryMark \o c.path \o <<BT, ":", SP>> \o c.description

\* how often x occurs in the sequence s
Count(s, x) == Cardinality({ i \in DOMAIN s : s[i] = x })

\* t is s without its trailing whitespace
IsTrimEndOf(t, s) ==
    /\ Len(t) <= Len(s)
    /\ t = SubSeq(s, 1, Len(t))
    /\ (t # <<>> => ~IsWhitespace(t[Len(t)]))
    /\ \A i \in (Len(t) + 1)..Len(s) : IsWhitespace(s[i])

\* the first entry of config.categories whose category is name, if any
FirstEntryFor(name) ==
    LET hits == { i \in DOMAIN config.categories : config.categories[i].category = name }
    IN  IF hits = {} THEN None
        ELSE Some(config.categories[CHOOSE i \in hits : \A j \in hits : i <= j])

\* C1: the headings of the document are the config's category order
\* filtered to the categories that have components (each under its display
\* title), followed by the categories that have components and are not named
\* in the config, in strictly ascending byte order.
C1_CategoryOrder ==
    Generated =>
        LET IsUsed(name) == name \in UsedCategories
            listed == SelectSeq(category_order(config), IsUsed)
            unlisted == UsedCategories \ Range(category_order(config))
            hs == HeadingTitles
            rest == SubSeq(hs, Len(listed) + 1, Len(hs))
        IN  /\ Len(hs) = Len(listed) + Cardinality(unlisted)
            /\ \A i \in DOMAIN listed : hs[i] = display_title_for(config, listed[i])
            /\ Range(rest) = unlisted
            /\ \A i, j \in DOMAIN rest : i < j => StrCmp(rest[i], rest[j]) < 0

\* a config lists "B" only; the components come in the order a, A, B
C1_Witness ==
    /\ Generated
    /\ category_order(config) = << <<"B">> >>
    /\ Len(components) = 3
    /\ components[1].category = <<"a">>
    /\ components[2].category = <<"A">>
    /\ components[3].category = <<"B">>
    /\ HeadingTitles = << <<"Y">>, <<"A">>, <<"a">> >>

\* C2: exactly one `## ` section per category that has components, and
\* every input component in exactly one entry line.
C2_OneSectionPerCategory ==
    Generated =>
        /\ Len(HeadingTitles) = Cardinality(UsedCategories)
        /\ Len(SelectSeq(DocLines, IsEntry)) = Len(components)
        /\ \A i \in DOMAIN components :
              Count(DocLines, EntryText(components[i])) = Count(components, components[i])

\* C3: every heading is the heading of a category that has a component,
\* with an entry of that category beneath it before the next heading; a
\* config category without components leaves no heading and no description.
C3_NoEmptySection ==
    Generated =>
        LET ls == DocLines
        IN  /\ \A i \in DOMAIN ls :
                  IsHeading(ls[i]) =>
                      \E c \in Range(components) :
                          /\ ls[i] = HeadingMark \o display_title_for(config, c.category)
                          /\ \E j \in (i + 1)..Len(ls) :
                                /\ ls[j] = EntryText(c)
                                /\ \A m \in (i + 1)..j : ~IsHeading(ls[m])
            /\ \A e \in Range(config.categories) :
                  e.category \notin UsedCategories =>
                      /\ HeadingMark \o (IF e.title.some THEN e.title.val ELSE e.category)
                            \notin Range(ls)
                      /\ e.description.some => trim_end(e.description.val) \notin Range(ls)

\* the config names "B", which has no component, and "A", which has one
C3_Witness ==
    /\ Generated
    /\ category_order(config) = << <<"B">>, <<"A">> >>
    /\ UsedCategories = { <<"A">> }
    /\ HeadingTitles # <<>>

IndexPermutations(n) ==
    { f \in [1..n -> 1..n] : \A i, j \in 1..n : i # j => f[i] # f[j] }

DistinctPaths ==
    \A i, j \in DOMAIN components :
        i # j => PathCmp(components[i].path, components[j].path) # 0

\* C4: with pairwise distinct paths the document is the same for every
\* permutation of the component list and every iteration order of the map.
C4_PermutationInvariant ==
    (Generated /\ DistinctPaths) =>
        \A f \in IndexPermutations(Len(components)) :
            LET permuted == [i \in DOMAIN components |-> components[f[i]]]
            IN  \A key_order \in KeyOrders(group_by_category(permuted)) :
                    generate_document(permuted, config, key_order) = doc

\* two components of one category given in descending path order, and two
\* categories the config does not name
C4_Witness ==
    /\ Generated
    /\ DistinctPaths
    /\ Len(components) = 3
    /\ components[1].category = components[2].category
    /\ PathCmp(components[1].path, components[2].path) > 0
    /\ components[3].category # components[1].category
    /\ Cardinality(UsedCategories \ Range(category_order(config))) = 2

\* C5: for the empty component list the document is the header block:
\* "# " + title (config.title or the default) + "\n", then, when the config
\* has a description, "\n" + the description without trailing whitespace +
\* "\n"; no category section.
C5_EmptyIsHeader ==
    (Generated /\ components = <<>>) =>
        LET t == IF config.title.some THEN config.title.val ELSE DEFAULT_TITLE
            head == <<"#", SP>> \o t \o <<NL>>
        IN  /\ IF config.description.some
               THEN \E n \in 0..Len(config.description.val) :
                       LET d == SubSeq(config.description.val, 1, n)
                       IN  /\ IsTrimEndOf(d, config.description.val)
                           /\ doc = head \o <<NL>> \o d \o <<NL>>
               ELSE doc = head
            /\ HeadingTitles = <<>>
            /\ (config = DefaultConfig => doc = <<"#", SP>> \o DEFAULT_TITLE \o <<NL>>)

\* no component, a description that ends in whitespace
C5_Witness ==
    /\ Generated
    /\ components = <<>>
    /\ config.description.some
    /\ IsWhitespace(config.description.val[Len(config.description.val)])

\* C6: each section's heading is the title of the first config entry for
\* its category (the raw name when that entry has no title or no entry
\* matches); that entry's description, trimmed, stands between the heading
\* and the entries, with blank lines around it.
C6_FirstEntryWins ==
    Generated =>
        LET ls == DocLines
        IN  \A i \in DOMAIN ls :
                IsHeading(ls[i]) =>
                    \E j \in (i + 1)..Len(ls) : \E c \in Range(components) :
                        /\ ls[j] = EntryText(c)
                        /\ \A m \in (i + 1)..(j - 1) : ~IsEntry(ls[m])
                        /\ LET e == FirstEntryFor(c.category)
                           IN  /\ ls[i] = HeadingMark \o
                                      (IF e.some /\ e.val.title.some
                                       THEN e.val.title.val ELSE c.category)
                               /\ IF e.some /\ e.val.description.some
                                  THEN /\ j = i + 4
                                       /\ ls[i + 1] = <<>>
                                       /\ IsTrimEndOf(ls[i + 2], e.val.description.val)
                                       /\ ls[i + 3] = <<>>
                                  ELSE /\ j = i + 2
                                       /\ ls[i + 1] = <<>>

\* two entries for "A", the first without a description, and a component
\* of "A"
C6_Witness ==
    /\ Generated
    /\ category_order(config) = << <<"A">>, <<"A">> >>
    /\ config.categories[1] # config.categories[2]
    /\ <<"A">> \in UsedCategories

-----------------------------------------------------------------------------
(* Inputs of parse_component *)

\* the most lines after the front matter
MaxBodyLines == 3

LineCategory == KeyCategory \o <<":", SP, "k">>
LineCategoryEmpty == KeyCategory \o <<":", SP, "'", "'">>
LineDescription == KeyDescription \o <<":", SP, "v">>
LineDescriptionEmpty == KeyDescription \o <<":", SP, "'", "'">>

\* the first line: the delimiter, the delimiter after a blank, the
\* delimiter followed by a letter, or no opening line at all
OpeningPool == { <<Dashes>>, << <<SP>> \o Dashes >>, << Dashes \o <<"x">> >>, <<>> }

\* the lines between the delimiters; in the last block the lines end in
\* "\r" of their own
BlockPool ==
    { <<>>,
      <<LineCategory>>,
      <<LineDescription>>,
      <<LineCategory, LineDescription>>,
      <<LineCategory, LineDescriptionEmpty>>,
      <<LineCategoryEmpty, LineDescription>>,
      <<LineCategory \o <<CR>>, LineDescription \o <<CR>> >> }

\* the closing line: the delimiter, the delimiter after a blank, or none
ClosingPool == { <<Dashes>>, << <<SP>> \o Dashes >>, <<>> }

\* the lines after the front matter
BodyLinePool == { <<>>, <<"#", SP, "h">>, <<"a">>, <<SP, "b", SP>> }

BodyPool == UNION { [1..n -> BodyLinePool] : n \in 0..MaxBodyLines }

\* the line ending of the file
EolPool == { <<NL>>, <<CR, NL>> }

\* the files: the lines joined by the line ending, the last line with or
\* without one
Texts ==
    { join(o \o b \o c \o r, eol) \o (IF final /\ o \o b \o c \o r # <<>> THEN eol ELSE <<>>) :
        o \in OpeningPool, b \in BlockPool, c \in ClosingPool, r \in BodyPool,
        eol \in EolPool, final \in BOOLEAN }

\* the patterns of the command line: one with a wildcard component, one
\* without (the pattern names the file itself)
PatternPool ==
    { <<"t", "/", "*", "/", "R">>, <<"t", "/", "a", "/", "R">> }

\* (path, base_dir): the file both patterns match with the base_dir the
\* driver derives from each pattern, and a base_dir that is no prefix of the
\* path (parse_component is a public function of the library)
PathPool ==
    { <<"t", "/", "a", "/", "R">> } \X
    ({ get_base_dir_from_pattern(p) : p \in PatternPool } \cup { <<"u">> })

-----------------------------------------------------------------------------
(* parse_component called on a file *)

InitParse ==
    /\ pc = "read"
    /\ content \in Texts
    /\ fm_str = None
    /\ fm = None
    /\ description = None
    /\ result = None
    /\ components = <<>>
    /\ config = DefaultConfig
    /\ doc = <<>>
    /\ paragraph = None
    /\ args = None
    /\ disk = None
    /\ found = None
    /\ next_file = 1
    /\ loaded = None
    /\ exit = None

\* let front_matter_str = extract_front_matter(&content).with_context(..)?
ExtractFrontMatter ==
    /\ pc = "read"
    /\ fm_str' = extract_front_matter(content)
    /\ IF fm_str' = Panic
       THEN pc' = "panicked" /\ UNCHANGED result
       ELSE IF fm_str'.some
            THEN pc' = "extracted" /\ UNCHANGED result
            ELSE pc' = "failed" /\ result' = Err("No front matter found")
    /\ UNCHANGED <<components, config, doc, content, fm, description>>
    /\ UNCHANGED <<paragraph, driverVars>>

\* let front_matter = parse_front_matter(front_matter_str).with_context(..)?
ParseFrontMatter ==
    /\ pc = "extracted"
    /\ LET parsed == parse_front_matter(fm_str.val)
       IN  IF parsed.ok
           THEN pc' = "parsed" /\ fm' = Some(parsed.val) /\ UNCHANGED result
           ELSE pc' = "failed" /\ result' = Err("Failed to parse front matter") /\ UNCHANGED fm
    /\ UNCHANGED <<components, config, doc, content, fm_str, description>>
    /\ UNCHANGED <<paragraph, driverVars>>

\* let description = front_matter.description.or_else(..).with_context(..)?
ChooseDescription ==
    /\ pc = "parsed"
    /\ description' = description_or_else(fm.val, content)
    /\ IF description'.some
       THEN pc' = "described" /\ UNCHANGED result
       ELSE pc' = "failed" /\ result' = Err("No description found")
    /\ UNCHANGED <<components, config, doc, content, fm_str, fm>>
    /\ UNCHANGED <<paragraph, driverVars>>

\* Ok(Component { path: relative_path, description, category })
ReturnComponent ==
    /\ pc = "described"
    /\ \E pb \in PathPool :
          result' = Ok([ path |-> relative_path(pb[1], pb[2]),
                         description |-> description.val,
                         category |-> fm.val.category ])
    /\ pc' = "returned"
    /\ UNCHANGED <<components, config, doc, content, fm_str, fm, description>>
    /\ UNCHANGED <<paragraph, driverVars>>

NextParse == ExtractFrontMatter \/ ParseFrontMatter \/ ChooseDescription \/ ReturnComponent

SpecParse == InitParse /\ [][NextParse]_vars

-----------------------------------------------------------------------------
(* Claims about extract_front_matter and parse_component *)

Extracted == pc # "read"

OpeningLine == Dashes \o <<NL>>
ClosingLine == <<NL>> \o Dashes \o <<NL>>

\* content = "---\n" + body + "\n---\n" + rest, body n characters long
\* and without a line that is "---"
HasBodyOfLength(n) ==
    /\ Len(content) >= Len(OpeningLine) + n + Len(ClosingLine)
    /\ SubSeq(content, 1, Len(OpeningLine)) = OpeningLine
    /\ SubSeq(content, Len(OpeningLine) + n + 1, Len(OpeningLine) + n + Len(ClosingLine))
          = ClosingLine
    /\ Dashes \notin Range(lines(SubSeq(content, Len(OpeningLine) + 1, Len(OpeningLine) + n)))

\* C7: extract_front_matter on "---\n" + body + "\n---\n" + rest, where no
\* line of body is "---", returns exactly body.
C7_ExtractReturnsBody ==
    Extracted =>
        \A n \in 0..Len(content) :
            HasBodyOfLength(n) =>
                fm_str = Some(SubSeq(content, Len(OpeningLine) + 1, Len(OpeningLine) + n))

\* the first line is not the line "---"
OpeningAbsent == lines(content) = <<>> \/ lines(content)[1] # Dashes

\* no line after the first is "---", blanks around it aside
ClosingAbsent == \A i \in 2..Len(lines(content)) : trim(lines(content)[i]) # Dashes

\* C8: extract_front_matter returns "not found" for every text in which the
\* opening or the closing delimiter is absent.
C8_AbsentDelimiterNotFound ==
    (Extracted /\ (OpeningAbsent \/ ClosingAbsent)) => fm_str = None

C10_NonEmptyFields ==
    pc = "returned" =>
        /\ result.ok
        /\ result.val.category # <<>>
        /\ result.val.description # <<>>

\* C11: the path of a parsed component is never the empty path, whatever
\* base_dir the driver derived from the pattern (a pattern without a wildcard
\* included).
\* Violated: a pattern without a wildcard gives base_dir = the matched file,
\* strip_prefix succeeds with nothing left, and the component's path is "".
C11_PathNeverEmpty ==
    pc = "returned" => result.val.path # <<>>

\* C16: extract_front_matter finds a block only in a text that begins with
\* exactly "---" followed at once by a line terminator ("\n" or "\r"); with
\* whitespace before the "---" or another character after it, the result is
\* "not found".
\* Violated: the opening test is trim().starts_with("---"), so " ---" and
\* "---x" open a block too.
C16_OpeningExact ==
    (Extracted /\ fm_str.some) =>
        \/ StartsWith(content, Dashes \o <<NL>>)
        \/ StartsWith(content, Dashes \o <<CR>>)

-----------------------------------------------------------------------------
(* extract_first_paragraph called on a text *)

InitParagraph ==
    /\ pc = "text"
    /\ content \in Texts
    /\ paragraph = None
    /\ fm_str = None
    /\ fm = None
    /\ description = None
    /\ result = None
    /\ components = <<>>
    /\ config = DefaultConfig
    /\ doc = <<>>
    /\ args = None
    /\ disk = None
    /\ found = None
    /\ next_file = 1
    /\ loaded = None
    /\ exit = None

\* extract_first_paragraph(&content)
ExtractFirstParagraph ==
    /\ pc = "text"
    /\ paragraph' = extract_first_paragraph(content)
    /\ pc' = "paragraph"
    /\ UNCHANGED <<components, config, doc, content, fm_str, fm, description, result>>
    /\ UNCHANGED driverVars

NextParagraph == ExtractFirstParagraph

SpecParagraph == InitParagraph /\ [][NextParagraph]_vars

\* the lines of the text that was read
ContentLines == lines(content)

\* a line without a character other than whitespace
EmptyLine(l) == \A i \in DOMAIN l : IsWhitespace(l[i])

\* a line whose first character other than whitespace is "#"
HeadingLine(l) ==
    \E i \in DOMAIN l : l[i] = "#" /\ \A j \in 1..(i - 1) : IsWhitespace(l[j])

\* the lines ls[i..j], each without the whitespace around it, with one space
\* between two of them
SpaceJoined(ls, i, j) ==
    join([k \in 1..(j - i + 1) |-> trim(ls[i + k - 1])], <<SP>>)

\* the first line after the front matter as extract_first_paragraph skips
\* it: a first line "---" (blanks around it aside) opens the block, the next
\* such line closes it, and without one the block takes the whole text
AfterSkippedBlock(ls) ==
    IF ls # <<>> /\ trim(ls[1]) = Dashes
    THEN IF ClosingIndex(ls) = 0 THEN Len(ls) + 1 ELSE ClosingIndex(ls) + 1
    ELSE 1

\* C17: the paragraph that extract_first_paragraph returns starts at the
\* first line after the front matter that is neither empty nor a heading and
\* ends before the next line that is empty or a heading, with or without a
\* heading before it; it never holds the text of a heading.
\* Violated: a paragraph met before any heading is collected up to the next
\* empty line only, so a heading right after it becomes part of the result.
C17_ParagraphBounds ==
    (pc = "paragraph" /\ paragraph.some) =>
        LET ls == ContentLines
            from == AfterSkippedBlock(ls)
            text == [k \in DOMAIN ls |-> ~EmptyLine(ls[k]) /\ ~HeadingLine(ls[k])]
        IN  \E i \in from..Len(ls) :
            \E j \in i..Len(ls) :
                /\ \A k \in from..(i - 1) : ~text[k]
                /\ \A k \in i..j : text[k]
                /\ j < Len(ls) => ~text[j + 1]
                /\ paragraph.val = SpaceJoined(ls, i, j)

\* the first line after the front matter read strictly: the first line is
\* exactly "---" and a later line closes the block; otherwise the text has
\* no block
AfterExactBlock(ls) ==
    IF ls # <<>> /\ ls[1] = Dashes /\ ClosingIndex(ls) # 0
    THEN ClosingIndex(ls) + 1
    ELSE 1

\* C18: a paragraph that extract_first_paragraph returns is a run of lines
\* of the text, each trimmed, joined with exactly one space: it is not
\* empty, has no whitespace at either end and no line break inside; and when
\* every line after the front matter is blank or a heading, the result is
\* "not found".
C18_ParagraphShape ==
    pc = "paragraph" =>
        LET ls == ContentLines
            text == [k \in DOMAIN ls |-> ~EmptyLine(ls[k]) /\ ~HeadingLine(ls[k])]
        IN  /\ paragraph.some =>
                /\ paragraph.val # <<>>
                /\ ~IsWhitespace(paragraph.val[1])
                /\ ~IsWhitespace(paragraph.val[Len(paragraph.val)])
                /\ \A i \in DOMAIN paragraph.val : paragraph.val[i] \notin {NL, CR}
                /\ \E i \in DOMAIN ls :
                   \E j \in i..Len(ls) :
                       /\ \A k \in i..j : ~EmptyLine(ls[k])
                       /\ paragraph.val = SpaceJoined(ls, i, j)
            /\ \A from \in {AfterExactBlock(ls), AfterSkippedBlock(ls)} :
                   (\A k \in from..Len(ls) : ~text[k]) => paragraph = None

\* after a front matter and a heading, the lines "a" and " b " give "a b"
C18_Witness ==
    /\ pc = "paragraph"
    /\ paragraph = Some(<<"a", SP, "b">>)
    /\ LET ls == ContentLines
       IN  /\ ls[1] = Dashes
           /\ \E k \in DOMAIN ls :
                 /\ k < Len(ls)
                 /\ ls[k] = <<"a">>
                 /\ ls[k + 1] = <<SP, "b", SP>>

\* C19: on a text in which extract_front_matter finds a block,
\* extract_first_paragraph skips everything up to and including the closing
\* line: a description taken from the first paragraph is made of lines after
\* the closing line only, never of a delimiter or a front-matter line.
\* Violated: extract_front_matter opens a block on "---x" (starts_with),
\* extract_first_paragraph only on "---" (equality), and then reads the
\* delimiters and the front matter as the first paragraph.
C19_FallbackSkipsBlock ==
    (pc \in {"described", "returned"} /\ ~fm.val.description.some) =>
        LET ls == ContentLines
        IN  \E i \in (ClosingIndex(ls) + 1)..Len(ls) :
            \E j \in i..Len(ls) :
                description.val = SpaceJoined(ls, i, j)

-----------------------------------------------------------------------------
(* Order of the entries of a section *)

\* the path between the backticks of an entry line
EntryPath(l) ==
    LET close == CHOOSE k \in (Len(EntryMark) + 1)..Len(l) :
                     /\ l[k] = BT
                     /\ \A j \in (Len(EntryMark) + 1)..(k - 1) : l[j] # BT
    IN  SubSeq(l, Len(EntryMark) + 1, close - 1)

\* C15 as stated: within each section, the entries are in ascending
\* lexicographic order of the string form of their paths, "a/R" and "a-b/R"
\* included.
\* Violated: "a/R" is listed before "a-b/R", and "-" sorts before "/".
C15_EntriesInStringOrder ==
    Generated =>
        \A i \in 1..(Len(DocLines) - 1) :
            (IsEntry(DocLines[i]) /\ IsEntry(DocLines[i + 1])) =>
                StrCmp(EntryPath(DocLines[i]), EntryPath(DocLines[i + 1])) <= 0

\* C15, amended: within each section, the entries are in ascending order of
\* their paths compared component by component (the order of Path), each
\* component in byte order; so "a/R" precedes "a-b/R".
C15_EntriesInPathOrder ==
    Generated =>
        \A i \in 1..(Len(DocLines) - 1) :
            (IsEntry(DocLines[i]) /\ IsEntry(DocLines[i + 1])) =>
                PathCmp(EntryPath(DocLines[i]), EntryPath(DocLines[i + 1])) <= 0

\* "a-b/R" was pushed before "a/R", and the section lists "a/R" first
C15_Witness ==
    /\ Generated
    /\ Len(components) >= 2
    /\ components[1].path = <<"a", "-", "b", "/", "R">>
    /\ components[2].path = <<"a", "/", "R">>
    /\ \E i \in 1..(Len(DocLines) - 1) :
          /\ IsEntry(DocLines[i]) /\ IsEntry(DocLines[i + 1])
          /\ EntryPath(DocLines[i]) = <<"a", "/", "R">>
          /\ EntryPath(DocLines[i + 1]) = <<"a", "-", "b", "/", "R">>

-----------------------------------------------------------------------------
(* main.rs and config.rs: the functions of a run of `generate` *)

\* config_path.map(PathBuf::from).unwrap_or_else(|| PathBuf::from("architecture.toml"))
config_file_of(config_path) ==
    IF config_path.some THEN config_path.val ELSE "architecture.toml"

\* a load that reports a missing file as an error
load_missing_is_error(file) ==
    IF ~file.exists \/ ~file.readable THEN Err("Failed to read config file")
    ELSE IF ~file.toml.some THEN Err("Failed to parse config file")
    ELSE Ok(file.toml.val)

\* Config::load on the file at the path: the default config when no file
\* exists, an error when it cannot be read or is no valid TOML
load(file) ==
    IF ~file.exists THEN Ok(DefaultConfig)
    ELSE IF ~file.readable THEN Err("Failed to read config file")
    ELSE IF ~file.toml.some THEN Err("Failed to parse config file")
    ELSE Ok(file.toml.val)

\* glob::Pattern::new rejects a "[" that is never closed
pattern_valid(pattern) ==
    \A i \in DOMAIN pattern :
        pattern[i] = "[" => \E j \in (i + 1)..Len(pattern) : pattern[j] = "]"

\* a path matches a pattern component by component; "*" matches any name
matches(pattern, path) ==
    LET pcs == PathComponents(pattern)
        fcs == PathComponents(path)
    IN  /\ Len(pcs) = Len(fcs)
        /\ \A i \in DOMAIN pcs : pcs[i] = <<"*">> \/ pcs[i] = fcs[i]

\* find_markdown_files: the matching paths in the order of the glob
\* (alphabetical, the order of `paths`); an entry that is an error is
\* printed and yields no path
find_markdown_files(pattern, paths) ==
    IF ~pattern_valid(pattern) THEN Err("Failed to read glob pattern")
    ELSE LET Matching(path) == matches(pattern, path)
         IN  Ok(SelectSeq(paths, Matching))

\* parse_component(path, base_dir) on the file that is at the path
parse_component(path, file, base_dir) ==
    IF ~file.readable THEN Err("Failed to read file")
    ELSE LET front_matter_str == extract_front_matter(file.content)
         IN  IF front_matter_str = Panic THEN Err("panic")
             ELSE IF ~front_matter_str.some THEN Err("No front matter found")
             ELSE LET front_matter == parse_front_matter(front_matter_str.val)
                  IN  IF ~front_matter.ok THEN Err("Failed to parse front matter")
                      ELSE LET chosen == description_or_else(front_matter.val, file.content)
                           IN  IF ~chosen.some THEN Err("No description found")
                               ELSE Ok([ path |-> relative_path(path, base_dir),
                                         description |-> chosen.val,
                                         category |-> front_matter.val.category ])

\* a load error that is ignored: the run goes on with the default config
after_load_or_default(r) ==
    IF r.ok THEN [pc |-> "find_files", config |-> r.val, exit |-> None]
    ELSE [pc |-> "find_files", config |-> DefaultConfig, exit |-> None]

\* let config = Config::load(&config_file)?
after_load(r) ==
    IF r.ok THEN [pc |-> "find_files", config |-> r.val, exit |-> None]
    ELSE [pc |-> "exited", config |-> None, exit |-> Some(r)]

\* a failed parse that is propagated with `?`
parse_step_propagate(comps, r) ==
    IF r.ok THEN [components |-> Append(comps, r.val), pc |-> "parse", exit |-> None]
    ELSE [components |-> comps, pc |-> "exited", exit |-> Some(r)]

\* if let Ok(component) = parse_component(file, &base_dir) { components.push(component) }
parse_step(comps, r) ==
    IF r.ok THEN [components |-> Append(comps, r.val), pc |-> "parse", exit |-> None]
    ELSE IF r.err = "panic" THEN [components |-> comps, pc |-> "panicked", exit |-> None]
    ELSE [components |-> comps, pc |-> "parse", exit |-> None]

-----------------------------------------------------------------------------
(* Inputs of a run: command line and disk *)

MaxFiles == 2

\* a config file that sets a title and lists category "k"
CustomConfig ==
    [ title |-> Some(<<"T">>), description |-> None,
      categories |-> << [category |-> <<"k">>, title |-> Some(<<"K">>), description |-> None] >> ]

\* what can be at the path of a config file: nothing, a file that cannot
\* be read, a file that is no valid TOML, a valid file
ConfigFilePool ==
    { [exists |-> FALSE, readable |-> FALSE, toml |-> None],
      [exists |-> TRUE, readable |-> FALSE, toml |-> None],
      [exists |-> TRUE, readable |-> TRUE, toml |-> None],
      [exists |-> TRUE, readable |-> TRUE, toml |-> Some(CustomConfig)] }

\* the config paths: the implicit one and one given with -c
ConfigPaths == { "architecture.toml", "custom.toml" }

\* the patterns: PatternPool and one that is no valid glob
DriverPatternPool == PatternPool \cup { <<"t", "/", "[", "/", "R">> }

ArgsPool ==
    [ pattern : DriverPatternPool,
      config : { None } \cup { Some("custom.toml") } ]

\* the markdown files, in alphabetical order
FilePaths ==
    << <<"t", "/", "a", "/", "R">>, <<"t", "/", "b", "/", "R">>,
       <<"t", "/", "c", "/", "R">>, <<"t", "/", "d", "/", "R">> >>

\* a file with category and description, one whose description is its
\* first paragraph, one without front matter, one that cannot be read
FilePool ==
    { [readable |-> TRUE,
       content |-> join(<<Dashes, LineCategory, LineDescription, Dashes>>, <<NL>>)],
      [readable |-> TRUE,
       content |-> join(<<Dashes, LineCategory, Dashes, <<"#", SP, "h">>, <<"a">>>>, <<NL>>)],
      [readable |-> TRUE,
       content |-> join(<<<<"#", SP, "h">>, <<"a">>>>, <<NL>>)],
      [readable |-> FALSE, content |-> <<>>] }

\* the disk: the two config paths, up to MaxFiles markdown files, and the
\* output file, absent or left by an earlier run
Disks ==
    UNION {
        { [ config_files |-> cf, paths |-> SubSeq(FilePaths, 1, n), files |-> fs,
            output |-> out, writes |-> 0 ] :
            cf \in [ConfigPaths -> ConfigFilePool],
            fs \in [{ FilePaths[i] : i \in 1..n } -> FilePool],
            out \in { None, Some(<<"o">>) } } :
        n \in 0..MaxFiles }

-----------------------------------------------------------------------------
(* generate_architecture(pattern, output, config_path) *)

InitDriver ==
    /\ pc = "load_config"
    /\ args \in ArgsPool
    /\ disk \in Disks
    /\ loaded = None
    /\ found = None
    /\ next_file = 1
    /\ exit = None
    /\ components = <<>>
    /\ config = None
    /\ doc = <<>>
    /\ content = <<>>
    /\ fm_str = None
    /\ fm = None
    /\ description = None
    /\ result = None
    /\ paragraph = None

\* let config = Config::load(&config_file)?
LoadConfig ==
    /\ pc = "load_config"
    /\ loaded' = Some(load(disk.config_files[config_file_of(args.config)]))
    /\ pc' = after_load(loaded'.val).pc
    /\ config' = after_load(loaded'.val).config
    /\ exit' = after_load(loaded'.val).exit
    /\ UNCHANGED <<args, disk, found, next_file, components, doc>>
    /\ UNCHANGED <<content, fm_str, fm, description, result, paragraph>>

\* let files = find_markdown_files(pattern)?
FindFiles ==
    /\ pc = "find_files"
    /\ found' = Some(find_markdown_files(args.pattern, disk.paths))
    /\ IF found'.val.ok
       THEN pc' = "parse" /\ UNCHANGED exit
       ELSE pc' = "exited" /\ exit' = found'
    /\ UNCHANGED <<args, disk, loaded, next_file, components, config, doc>>
    /\ UNCHANGED <<content, fm_str, fm, description, result, paragraph>>

\* one turn of `for file in files`
ParseFile ==
    /\ pc = "parse"
    /\ next_file <= Len(found.val.val)
    /\ LET file == found.val.val[next_file]
           base_dir == get_base_dir_from_pattern(args.pattern)
           step == parse_step(components, parse_component(file, disk.files[file], base_dir))
       IN  /\ components' = step.components
           /\ pc' = step.pc
           /\ exit' = step.exit
    /\ next_file' = next_file + 1
    /\ UNCHANGED <<args, disk, loaded, found, config, doc>>
    /\ UNCHANGED <<content, fm_str, fm, description, result, paragraph>>

\* let doc = generate_document(&components, &config)
GenerateDoc ==
    /\ pc = "parse"
    /\ next_file > Len(found.val.val)
    /\ \E key_order \in KeyOrders(group_by_category(components)) :
          doc' = generate_document(components, config, key_order)
    /\ pc' = "create_dir"
    /\ UNCHANGED <<args, disk, loaded, found, next_file, exit, components, config>>
    /\ UNCHANGED <<content, fm_str, fm, description, result, paragraph>>

\* if let Some(parent) = output.parent() { fs::create_dir_all(parent)? }
CreateDir ==
    /\ pc = "create_dir"
    /\ \E created \in BOOLEAN :
          IF created
          THEN pc' = "write" /\ UNCHANGED exit
          ELSE pc' = "exited" /\ exit' = Some(Err("create_dir_all"))
    /\ UNCHANGED <<args, disk, loaded, found, next_file, components, config, doc>>
    /\ UNCHANGED <<content, fm_str, fm, description, result, paragraph>>

\* fs::write(output, doc).context("Failed to write output file")?; Ok(())
\* a write that fails leaves the file as it was or empty
WriteOutput ==
    /\ pc = "write"
    /\ \E written \in BOOLEAN :
          IF written
          THEN /\ disk' = [disk EXCEPT !.output = Some(doc), !.writes = @ + 1]
               /\ exit' = Some(Ok(<<>>))
          ELSE /\ \E left \in { disk.output, Some(<<>>) } :
                     disk' = [disk EXCEPT !.output = left, !.writes = @ + 1]
               /\ exit' = Some(Err("Failed to write output file"))
    /\ pc' = "exited"
    /\ UNCHANGED <<args, loaded, found, next_file, components, config, doc>>
    /\ UNCHANGED <<content, fm_str, fm, description, result, paragraph>>

NextDriver ==
    LoadConfig \/ FindFiles \/ ParseFile \/ GenerateDoc \/ CreateDir \/ WriteOutput

SpecDriver == InitDriver /\ [][NextDriver]_vars

-----------------------------------------------------------------------------
(* Properties of a run *)

\* the result of parse_component on the n-th file the glob produced
ParseResult(n) ==
    parse_component(found.val.val[n], disk.files[found.val.val[n]],
                    get_base_dir_from_pattern(args.pattern))

\* the components of the files among the first n that parse, in glob order
RECURSIVE ParsedUpTo(_)
ParsedUpTo(n) ==
    IF n = 0 THEN <<>>
    ELSE IF ParseResult(n).ok THEN Append(ParsedUpTo(n - 1), ParseResult(n).val)
    ELSE ParsedUpTo(n - 1)

\* the glob has produced its files
Globbed == found.some /\ found.val.ok

\* C12: a file on which parse_component fails is skipped and never ends the
\* run: the loop goes on to every later file, and the component list given
\* to generate_document holds exactly the files that parsed, in glob order.
C12_FailedFilesSkipped ==
    Globbed =>
        /\ next_file <= Len(found.val.val) => (pc = "parse" /\ exit = None)
        /\ components = ParsedUpTo(next_file - 1)
        /\ pc \in {"create_dir", "write", "exited"} =>
              /\ next_file = Len(found.val.val) + 1
              /\ doc \in { generate_document(ParsedUpTo(Len(found.val.val)), config, key_order) :
                             key_order \in KeyOrders(group_by_category(components)) }

\* two files matched; the first cannot be parsed, the second can, and the
\* run ends with the second as the only component
C12_Witness ==
    /\ pc = "exited"
    /\ Globbed
    /\ Len(found.val.val) = 2
    /\ ~ParseResult(1).ok
    /\ ParseResult(2).ok
    /\ components = <<ParseResult(2).val>>
    /\ exit = Some(Ok(<<>>))

\* C13: Config::load on a path at which no file exists succeeds with the
\* default config, whether the path was given with -c or is the implicit
\* architecture.toml, and the title of that config is
\* "Architecture Documentation".
C13_MissingConfigIsDefault ==
    (loaded.some /\ ~disk.config_files[config_file_of(args.config)].exists) =>
        /\ loaded.val.ok
        /\ loaded.val.val = [title |-> None, description |-> None, categories |-> <<>>]
        /\ config = loaded.val.val
        /\ title(config) = <<"A", "r", "c", "h", "i", "t", "e", "c", "t", "u", "r", "e", SP,
                             "D", "o", "c", "u", "m", "e", "n", "t", "a", "t", "i", "o", "n">>
        /\ (exit.some /\ ~exit.val.ok) =>
              exit.val.err \notin {"Failed to read config file", "Failed to parse config file"}

\* -c names a path without a file while architecture.toml is a valid config
\* with another title; the run uses the default config
C13_Witness ==
    /\ loaded.some
    /\ args.config = Some("custom.toml")
    /\ ~disk.config_files["custom.toml"].exists
    /\ disk.config_files["architecture.toml"].toml = Some(CustomConfig)
    /\ config = DefaultConfig
    /\ pc = "exited"
    /\ disk.output.some
    /\ StartsWith(disk.output.val, <<"#", SP>> \o DEFAULT_TITLE)

\* C14: the output file is written at most once in a run, as the last step,
\* and only after the config was loaded, the glob was expanded and every
\* matched file was parsed or skipped; a run that ends in a config or glob
\* error has not written or created it.
C14_WriteOnceLast ==
    /\ disk.writes <= 1
    /\ disk.writes = 1 =>
          /\ pc = "exited"
          /\ exit.some
          /\ loaded.some /\ loaded.val.ok
          /\ Globbed
          /\ next_file = Len(found.val.val) + 1
    /\ (exit.some /\ ~exit.val.ok
          /\ exit.val.err \in {"Failed to read config file", "Failed to parse config file",
                               "Failed to read glob pattern"}) =>
          /\ disk.writes = 0
          /\ disk.output \in {None, Some(<<"o">>)}

\* the run replaced the file an earlier run had left, after it skipped one
\* of the two matched files
C14_Witness ==
    /\ pc = "exited"
    /\ exit = Some(Ok(<<>>))
    /\ disk.writes = 1
    /\ disk.output = Some(doc)
    /\ Len(found.val.val) = 2
    /\ Len(components) = 1

=========================================================================
